---- MODULE Spec2Model ----
(***************************************************************************)
(* PEHandler.analyse() of pythia/core/windows.py and the two scanners it   *)
(* drives, _find_tobject and _find_vftables, over byte-level sections.     *)
(* A section is a record [name, load_address, size, data]; data is the     *)
(* byte sequence behind stream_data (data[k + 1] is the byte at offset k). *)
(* analyse() is followed stage by stage through pc; the collaborators that *)
(* live in other modules of the package (PESection, unpack_stream,         *)
(* WorkQueue, the object constructors, UnitInitHelper, VersionHelper) are  *)
(* modelled at their interface.  context.data_sections, context.license    *)
(* and context.units are read by no stage followed here and are left out.  *)
(***************************************************************************)
EXTENDS Integers, Sequences, FiniteSets, TLC

VARIABLES
    pe_sections,     \* input: the code sections of the PE image, in file order
    entry_point,     \* input: the declared entry-point virtual address
    table_pos,       \* input: what find_init_table() returns (0 is None)
    pc,              \* position of analyse()
    outcome,         \* "running", "returned" (analyse returned None) or the exception raised
    work_queue,      \* self.work_queue: sequence of [location, item_type]
    code_sections,   \* context.code_sections
    code_section,    \* local code_section: index into code_sections, 0 is None
    s_idx,           \* loop index of "for s in self.context.code_sections"
    found,           \* local found
    header_length,   \* context.header_length, Unset when never assigned
    object_section,  \* context.object_section: index into code_sections, 0 when unset
    version,         \* context.version
    items,           \* context.items
    init_table,      \* TRUE once parse_init_table has been called
    tobject_results, \* history: what each _find_tobject call returned, in order
    scan_runs,       \* history: number of _find_vftables calls made
    scanned,         \* history: the addresses _find_vftables enqueued, in order
    scan_reads,      \* history: the reads _find_vftables issued, in order
    version_runs,    \* history: number of VersionHelper constructions
    attempts,        \* history: every object construction attempted
    forwarded        \* history: number of items enqueued by constructors

vars == << pe_sections, entry_point, table_pos, pc, outcome, work_queue,
           code_sections, code_section, s_idx, found, header_length,
           object_section, version, items, init_table, tobject_results,
           scan_runs, scanned, scan_reads, version_runs, attempts,
           forwarded >>

(***************************************************************************)
(* Program constants.                                                      *)
(***************************************************************************)
\* while i < code_section.size - 128
ScanMargin == 128
\* if difference < 36 ...
MinDifference == 36
\* ... or difference > 128
MaxDifference == 128
\* code_section.stream_data.seek(j + 32)
NamePtrOffset == 32
\* if name == 0x624F5407
TObjectName == 1649366023
\* j = 5 (header DWORDs validated after the self pointer)
HeaderChecks == 5
\* i += 4
PtrSize == 4

(***************************************************************************)
(* Bounds of the model.                                                    *)
(***************************************************************************)
\* most code sections in one image
MaxSections == 2
\* most items the constructors of one run enqueue
MaxForward == 2

Unset == 0 - 1
NoItem == [location |-> 0, item_type |-> "None"]

(***************************************************************************)
(* PESection and unpack_stream.                                            *)
(***************************************************************************)
contains_va(s, va) == s.load_address <= va /\ va < s.load_address + s.size

offset_from_va(s, va) == va - s.load_address

va_from_offset(s, offset) == s.load_address + offset

\* The little-endian 32-bit value of the four bytes at offset.
U32At(data, offset) ==
    data[offset + 1] + 256 * data[offset + 2]
        + 65536 * data[offset + 3] + 16777216 * data[offset + 4]

\* unpack_stream of n "I" fields after seek(offset): the n values, or <<>>
\* when the stream holds fewer than 4 * n bytes from offset (struct.error).
unpack_stream(s, offset, n) ==
    IF offset < 0 \/ offset + 4 * n > s.size
    THEN << >>
    ELSE [k \in 1..n |-> U32At(s.data, offset + 4 * (k - 1))]

(***************************************************************************)
(* _find_tobject.                                                          *)
(***************************************************************************)
NoResult == [status |-> "None", va |-> 0, vftable_length |-> 0, reads |-> << >>]
StructError ==
    [status |-> "struct.error", va |-> 0, vftable_length |-> 0, reads |-> << >>]

\* A result together with the reads << offset, length >> issued on the
\* section's stream before it, in order.
after_reads(result, reads) == [result EXCEPT !.reads = reads]

\* The loop bound without the room kept for a full header.
tobject_in_range_no_margin(s, i) == i < s.size

\* The loop condition, while i < code_section.size - 128.
tobject_in_range(s, i) == i < s.size - ScanMargin

\* The upper bound taken one slot too far.
difference_rejected_loose(difference) ==
    difference < MinDifference \/ difference > MaxDifference + PtrSize

\* if difference < 36 or difference > 128: continue
difference_rejected(difference) ==
    difference < MinDifference \/ difference > MaxDifference

\* if confirmed_distance: return {...}; return None
tobject_return(s, j, confirmed_distance) ==
    IF confirmed_distance # 0
    THEN [status |-> "found", va |-> va_from_offset(s, j),
          vftable_length |-> confirmed_distance, reads |-> << >>]
    ELSE NoResult

\* The while loop from position i on, to the function's return value;
\* reads are the reads issued so far.
RECURSIVE tobject_loop(_, _, _)
tobject_loop(s, i, reads) ==
    IF ~tobject_in_range(s, i)
    THEN after_reads(tobject_return(s, i, 0), reads)
    ELSE
    LET j == i
        head == unpack_stream(s, j, 3)
        reads1 == Append(reads, << j, 12 >>)
    IN
    IF head = << >> THEN after_reads(StructError, reads1)
    ELSE
    LET ptr == head[1]
        check1 == head[2]
        check2 == head[3]
    IN
    IF check1 # 0 \/ check2 # 0 THEN tobject_loop(s, i + PtrSize, reads1)
    ELSE IF ~contains_va(s, ptr) THEN tobject_loop(s, i + PtrSize, reads1)
    ELSE
    LET offset == offset_from_va(s, ptr)
        difference == offset - j
    IN
    IF difference_rejected(difference) THEN tobject_loop(s, i + PtrSize, reads1)
    ELSE
    LET field == unpack_stream(s, j + NamePtrOffset, 1)
        reads2 == Append(reads1, << j + NamePtrOffset, 4 >>)
    IN
    IF field = << >> THEN after_reads(StructError, reads2)
    ELSE
    LET name_ptr == field[1]
    IN
    IF ~contains_va(s, name_ptr) THEN tobject_loop(s, i + PtrSize, reads2)
    ELSE
    LET name == unpack_stream(s, offset_from_va(s, name_ptr), 1)
        reads3 == Append(reads2, << offset_from_va(s, name_ptr), 4 >>)
    IN
    IF name = << >> THEN after_reads(StructError, reads3)
    ELSE IF name[1] = TObjectName
    THEN after_reads(tobject_return(s, j, difference), reads3)
    ELSE tobject_loop(s, i + PtrSize, reads3)

find_tobject(code_section_) == tobject_loop(code_section_, 0, << >>)

(***************************************************************************)
(* _find_vftables.  The value is [status, added]: added is the sequence of *)
(* addresses handed to work_queue.add_item(va, Vftable), in order.         *)
(***************************************************************************)
\* The loop bound without the header length taken off.
vftable_in_range_whole(section, length, i) == i < section.size

\* The loop condition, while i < section.size - context.header_length.
vftable_in_range(section, length, i) == i < section.size - length

\* if (va + context.header_length) == ptr
self_pointer(va, length, ptr) == va + length = ptr

\* The header slots left unvalidated.
header_error_unchecked(section, ptr) == FALSE

\* if ptr != 0 and not section.contains_va(ptr): error = True
header_error(section, ptr) == ptr # 0 /\ ~contains_va(section, ptr)

\* The reads of the j = 5 loop behind the self pointer at offset i: one
\* 4-byte read per header slot, up to the first that fails.
RECURSIVE header_reads(_, _, _)
header_reads(section, offset, n) ==
    IF n = 0 THEN << >>
    ELSE IF unpack_stream(section, offset, 1) = << >>
    THEN << << offset, 4 >> >>
    ELSE << << offset, 4 >> >> \o header_reads(section, offset + 4, n - 1)

RECURSIVE vftable_loop(_, _, _, _, _)
vftable_loop(section, length, i, added, reads) ==
    IF ~vftable_in_range(section, length, i)
    THEN [status |-> "returned", added |-> added, reads |-> reads]
    ELSE
    LET first == unpack_stream(section, i, 1)
        va == section.load_address + i
        reads1 == Append(reads, << i, 4 >>)
    IN
    IF first = << >>
    THEN [status |-> "struct.error", added |-> added, reads |-> reads1]
    ELSE IF self_pointer(va, length, first[1])
    THEN
        LET rest == unpack_stream(section, i + 4, HeaderChecks)
            reads2 == reads1 \o header_reads(section, i + 4, HeaderChecks)
        IN
        IF rest = << >>
        THEN [status |-> "struct.error", added |-> added, reads |-> reads2]
        ELSE IF \E k \in 1..HeaderChecks : header_error(section, rest[k])
        THEN vftable_loop(section, length, i + PtrSize, added, reads2)
        ELSE vftable_loop(section, length, i + PtrSize, Append(added, va), reads2)
    ELSE vftable_loop(section, length, i + PtrSize, added, reads1)

find_vftables(section, length) ==
    vftable_loop(section, length, 0, << >>, << >>)

(***************************************************************************)
(* WorkQueue: an insertion-ordered backlog without de-duplication.         *)
(***************************************************************************)
add_item(queue, location, item_type) ==
    Append(queue, [location |-> location, item_type |-> item_type])

\* Positions of the items get_item may return: all of them for
\* obj_type "None" (no filter), else those of the requested kind.
Eligible(queue, obj_type) ==
    {k \in 1..Len(queue) : obj_type = "None" \/ queue[k].item_type = obj_type}

Lowest(S) == CHOOSE k \in S : \A m \in S : k <= m

\* get_item(obj_type): the first eligible item is removed and returned;
\* NoItem (None) when there is none.
get_item(queue, obj_type) ==
    IF Eligible(queue, obj_type) = {}
    THEN [item |-> NoItem, queue |-> queue]
    ELSE LET k == Lowest(Eligible(queue, obj_type))
         IN [item |-> queue[k],
             queue |-> SubSeq(queue, 1, k - 1) \o SubSeq(queue, k + 1, Len(queue))]

RECURSIVE add_items(_, _, _)
add_items(queue, locations, item_type) ==
    IF locations = << >> THEN queue
    ELSE add_items(add_item(queue, Head(locations), item_type),
                   Tail(locations), item_type)

(***************************************************************************)
(* Object construction, item["item_type"](code_section, location, context, *)
(* work_queue=...): it either fails validation or yields the object, and a *)
(* built object may have put follow-up work on the queue.  What a          *)
(* constructor reads is outside this module, so the outcome is a choice.   *)
(***************************************************************************)
\* The items one construction may enqueue: nothing, the table at the start
\* of the section it was built against (a parent table, perhaps one already
\* queued or built), or a type-information record behind the item itself.
ForwardChoices(section, item) ==
    {<< >>}
    \cup (IF forwarded < MaxForward
          THEN {<< [location |-> section.load_address, item_type |-> "Vftable"] >>,
                << [location |-> item.location + PtrSize, item_type |-> "TypeInfo"] >>}
          ELSE {})

ConstructOutcomes(section, item) ==
    {[ok |-> FALSE, forward |-> << >>]}
    \cup {[ok |-> TRUE, forward |-> f] : f \in ForwardChoices(section, item)}

\* The object a successful construction yields.
Built(section_index, item) ==
    [location |-> item.location, item_type |-> item.item_type,
     section |-> section_index]

(***************************************************************************)
(* analyse().                                                              *)
(***************************************************************************)
inputs == << pe_sections, entry_point, table_pos >>

\* _find_code_sections(): the image's code sections, in file order.
find_code_sections == pe_sections

\* for s in sections: if s.contains_va(s.load_address): code_section = s; break
principal_section(sections) ==
    LET hits == {k \in 1..Len(sections) :
                    contains_va(sections[k], sections[k].load_address)}
    IN IF hits = {} THEN 0 ELSE Lowest(hits)

\* From the creation of the work queue to the parsing of the init table.
analyse_begin ==
    /\ pc = "begin"
    /\ work_queue' = << >>
    /\ code_sections' = find_code_sections
    /\ code_section' = principal_section(find_code_sections)
    /\ IF principal_section(find_code_sections) = 0
       THEN /\ pc' = "done"
            /\ outcome' = "returned"
            /\ init_table' = init_table
       ELSE /\ pc' = "step1"
            /\ outcome' = outcome
            /\ init_table' = (table_pos # 0)
    /\ s_idx' = 1
    /\ found' = FALSE
    /\ UNCHANGED << inputs, header_length, object_section, version, items,
                    tobject_results, scan_runs, scanned, scan_reads, version_runs,
                    attempts, forwarded >>

\* A second accepting section that is not noticed.
multiple_sections_ignored(found_, result) == FALSE

\* if found: raise Exception("Objects in more than one section")
multiple_sections(found_, result) == result.status = "found" /\ found_

\* Step 1, one turn of "for s in self.context.code_sections".
analyse_step1 ==
    /\ pc = "step1"
    /\ s_idx <= Len(code_sections)
    /\ LET s == code_sections[s_idx]
           result == find_tobject(s)
       IN /\ tobject_results' = Append(tobject_results, result)
          /\ IF result.status = "struct.error"
             THEN /\ pc' = "done"
                  /\ outcome' = "struct.error"
                  /\ UNCHANGED << found, header_length, object_section, s_idx >>
             ELSE IF multiple_sections(found, result)
             THEN /\ pc' = "done"
                  /\ outcome' = "Exception"
                  /\ UNCHANGED << found, header_length, object_section, s_idx >>
             ELSE IF result.status = "found"
             THEN /\ found' = TRUE
                  /\ header_length' = result.vftable_length
                  /\ object_section' = s_idx
                  /\ s_idx' = s_idx + 1
                  /\ UNCHANGED << pc, outcome >>
             ELSE /\ s_idx' = s_idx + 1
                  /\ UNCHANGED << pc, outcome, found, header_length, object_section >>
    /\ UNCHANGED << inputs, work_queue, code_sections, code_section, version,
                    items, init_table, scan_runs, scanned, scan_reads, version_runs,
                    attempts, forwarded >>

\* if not found: return
tobject_missing(found_) == ~found_

\* self._find_vftables(self.context): the scan of context.object_section
\* with context.header_length, its candidates put on self.work_queue; control
\* goes on at after unless a read failed.
call_find_vftables(after) ==
    LET r == find_vftables(code_sections[object_section], header_length)
    IN /\ scan_runs' = scan_runs + 1
       /\ scanned' = r.added
       /\ scan_reads' = r.reads
       /\ work_queue' = add_items(work_queue, r.added, "Vftable")
       /\ IF r.status = "struct.error"
          THEN pc' = "done" /\ outcome' = "struct.error"
          ELSE pc' = after /\ outcome' = outcome

\* The end of step 1 and step 2: the return when TObject was not found,
\* else the vftable scan of context.object_section.
analyse_step2 ==
    /\ pc = "step1"
    /\ s_idx > Len(code_sections)
    /\ IF tobject_missing(found)
       THEN /\ pc' = "done"
            /\ outcome' = "returned"
            /\ UNCHANGED << work_queue, scan_runs, scanned, scan_reads >>
       ELSE call_find_vftables("step3")
    /\ UNCHANGED << inputs, code_sections, code_section, s_idx, found,
                    header_length, object_section, version, items, init_table,
                    tobject_results, version_runs, attempts, forwarded >>

\* What the history keeps of one construction: the item, the pass, the
\* section handed to the constructor, whether it validated, what it put on
\* the queue, and context.version, the queue (before the item was taken
\* off) and the number of stored items as the construction began.
Attempt(pass, item, o) ==
    [location |-> item.location, item_type |-> item.item_type,
     pass |-> pass, ok |-> o.ok, version |-> version,
     section |-> code_section, forward |-> o.forward,
     queue |-> work_queue, stored |-> Len(items)]

\* The constructor handed a queue of its own: its follow-up work is lost.
construct_private_queue(pass, item, queue) ==
    \E o \in ConstructOutcomes(code_sections[code_section], item) :
        /\ work_queue' = queue
        /\ forwarded' = forwarded + Len(o.forward)
        /\ items' = IF o.ok THEN Append(items, Built(code_section, item)) ELSE items
        /\ attempts' = Append(attempts, Attempt(pass, item, o))

\* An item that failed validation put back on the queue.
construct_requeue(pass, item, queue) ==
    \E o \in ConstructOutcomes(code_sections[code_section], item) :
        /\ work_queue' = IF o.ok THEN queue \o o.forward ELSE Append(queue, item)
        /\ forwarded' = forwarded + Len(o.forward)
        /\ items' = IF o.ok THEN Append(items, Built(code_section, item)) ELSE items
        /\ attempts' = Append(attempts, Attempt(pass, item, o))

\* The object appended whether or not it validated.
construct_stores_failed(pass, item, queue) ==
    \E o \in ConstructOutcomes(code_sections[code_section], item) :
        /\ work_queue' = queue \o o.forward
        /\ forwarded' = forwarded + Len(o.forward)
        /\ items' = Append(items, Built(code_section, item))
        /\ attempts' = Append(attempts, Attempt(pass, item, o))

\* One construction: obj = item["item_type"](code_section, item["location"],
\* self.context, work_queue=self.work_queue); self.context.items.append(obj),
\* or the ValidationError caught.  queue is the queue after get_item.
construct(pass, item, queue) ==
    \E o \in ConstructOutcomes(code_sections[code_section], item) :
        /\ work_queue' = queue \o o.forward
        /\ forwarded' = forwarded + Len(o.forward)
        /\ items' = IF o.ok THEN Append(items, Built(code_section, item)) ELSE items
        /\ attempts' = Append(attempts, Attempt(pass, item, o))

\* Step 3 dequeuing without a filter.
step3_unfiltered == "None"

\* The filter of step 3: get_item(obj_type=Vftable).
step3_filter == "Vftable"

\* Step 3, one turn of the loop that parses only vftables.
analyse_step3 ==
    /\ pc = "step3"
    /\ LET got == get_item(work_queue, step3_filter)
       IN IF got.item = NoItem
          THEN /\ pc' = "step4"
               /\ UNCHANGED << work_queue, items, attempts, forwarded >>
          ELSE /\ construct("A", got.item, got.queue)
               /\ pc' = pc
    /\ UNCHANGED << inputs, outcome, code_sections, code_section, s_idx, found,
                    header_length, object_section, version, init_table,
                    tobject_results, scan_runs, scanned, scan_reads, version_runs >>

\* Step 4 passing on to step 5 without the version assigned.
analyse_step4_skipped ==
    /\ pc = "step4"
    /\ pc' = "step5"
    /\ UNCHANGED << inputs, outcome, work_queue, code_sections, code_section,
                    s_idx, found, header_length, object_section, version,
                    items, init_table, tobject_results, scan_runs, scanned, scan_reads,
                    version_runs, attempts, forwarded >>

\* Step 4: self.context.version = VersionHelper(self.context)
analyse_step4 ==
    /\ pc = "step4"
    /\ version' = "VersionHelper"
    /\ version_runs' = version_runs + 1
    /\ pc' = "step5"
    /\ UNCHANGED << inputs, outcome, work_queue, code_sections, code_section,
                    s_idx, found, header_length, object_section, items,
                    init_table, tobject_results, scan_runs, scanned, scan_reads, attempts,
                    forwarded >>

\* Step 5, one turn of the loop that parses whatever is queued, and the
\* return of analyse() when the queue is exhausted.
analyse_step5 ==
    /\ pc = "step5"
    /\ LET got == get_item(work_queue, "None")
       IN IF got.item = NoItem
          THEN /\ pc' = "done"
               /\ outcome' = "returned"
               /\ UNCHANGED << work_queue, items, attempts, forwarded >>
          ELSE /\ construct("B", got.item, got.queue)
               /\ UNCHANGED << pc, outcome >>
    /\ UNCHANGED << inputs, code_sections, code_section, s_idx, found,
                    header_length, object_section, version, init_table,
                    tobject_results, scan_runs, scanned, scan_reads, version_runs >>

Next ==
    \/ analyse_begin
    \/ analyse_step1
    \/ analyse_step2
    \/ analyse_step3
    \/ analyse_step4
    \/ analyse_step5

(***************************************************************************)
(* The images analysed.  A section's bytes are zero except where 32-bit    *)
(* little-endian values are written; a later write covers an earlier one   *)
(* and a write is cut at the section's end.                                *)
(***************************************************************************)
\* The byte at offset of a zero-filled section after the writes
\* << offset, value >> were made in order.
ByteFrom(writes, offset) ==
    LET over == {k \in 1..Len(writes) :
                    writes[k][1] <= offset /\ offset < writes[k][1] + 4}
    IN IF over = {} THEN 0
       ELSE LET w == writes[CHOOSE k \in over : \A m \in over : m <= k]
            IN (w[2] \div (256 ^ (offset - w[1]))) % 256

MkSection(name, load_address, size, writes) ==
    [name |-> name, load_address |-> load_address, size |-> size,
     data |-> [k \in 1..size |-> ByteFrom(writes, k - 1)]]

\* A base-object pattern at offset j: the self pointer, the name pointer in
\* the ninth header slot and the name it points to.
TObjectAt(load_address, j, difference, name_offset) ==
    << << j, load_address + j + difference >>,
       << j + NamePtrOffset, load_address + name_offset >>,
       << name_offset, TObjectName >> >>

\* The write of value at offset, or none when value is 0.
Put(offset, value) == IF value = 0 THEN << >> ELSE << << offset, value >> >>

\* The k-th code section of an image is loaded at k * 4096.
LoadOf(k) == k * 4096

\* Sections of the images with several code sections: no base object; a
\* base object that is the only table; a base object and a second table; a
\* base object whose name pointer addresses the section's last two bytes.
SlotSections(k) ==
    LET l == LoadOf(k)
    IN { MkSection("plain", l, 144, << >>),
         MkSection("tobject", l, 144, TObjectAt(l, 0, 36, 64)),
         MkSection("classes", l, 144,
                   TObjectAt(l, 0, 40, 64) \o Put(80, l + 80 + 40)),
         MkSection("cut", l, 144, TObjectAt(l, 0, 36, 142)) }

RECURSIVE SlotImages(_)
SlotImages(n) ==
    IF n = 0 THEN {<< >>}
    ELSE LET shorter == SlotImages(n - 1)
         IN shorter \cup
            {Append(img, s) : img \in {i \in shorter : Len(i) = n - 1},
                              s \in SlotSections(n)}

\* Single sections that vary one base-object candidate field by field (its
\* position, the difference its self pointer gives, check1, the name
\* pointer, where and what the name is) next to an optional second
\* candidate at offset 12.
LocatorSections ==
    LET l == LoadOf(1)
    IN { MkSection("locator", l, 144,
                   Put(j, l + j + d) \o Put(j + 4, c1)
                   \o Put(j + NamePtrOffset, np)
                   \o (IF b THEN TObjectAt(l, 12, 40, 72) ELSE << >>)
                   \o Put(at, nm)) :
           j \in {0, 4}, d \in {32, 36, 40, 128, 132, 200}, c1 \in {0, 1},
           np \in {0, l + 64, l + 66, l + 142}, b \in BOOLEAN,
           at \in {64, 66}, nm \in {0, TObjectName, TObjectName + 1} }

\* Single sections with a base object at offset 0 and, behind it, a table
\* candidate at offset 80 whose self pointer and header slots vary, and
\* self pointers at the offsets 104 and 108 near the section's end (104 is
\* the last offset scanned for header length 36, the first one left out
\* for 40).
ScannerSections ==
    LET l == LoadOf(1)
    IN { MkSection("scanner", l, 144,
                   TObjectAt(l, 0, h, 64) \o Put(80, self) \o Put(84, f1)
                   \o Put(100, f5) \o Put(104, f6) \o Put(108, tail)) :
           h \in {36, 40}, self \in {0, l + 80 + 36, l + 80 + 40},
           f1 \in {0, l + 8, 5}, f5 \in {0, 5},
           f6 \in {0, 5, l + 104 + 40, l + 104 + 36},
           tail \in {0, l + 108 + 36} }

\* Single sections too short for any candidate position (100, 127 and 128
\* bytes) or with exactly one (132 bytes), empty or holding a base-object
\* pattern at offset 0.
ShortSections ==
    LET l == LoadOf(1)
    IN { MkSection("short", l, size, writes) :
           size \in {100, 127, 128, 132},
           writes \in {<< >>, TObjectAt(l, 0, 36, 64)} }

Images ==
    { [sections |-> img, entry |-> e, table |-> t] :
        img \in SlotImages(MaxSections),
        e \in {LoadOf(1) + 16, LoadOf(2) + 16},
        t \in {0, LoadOf(1) + 100} }
    \cup { [sections |-> << s >>, entry |-> LoadOf(1) + 16,
            table |-> LoadOf(1) + 100] :
             s \in LocatorSections \cup ScannerSections \cup ShortSections }

Init ==
    /\ \E img \in Images :
          /\ pe_sections = img.sections
          /\ entry_point = img.entry
          /\ table_pos = img.table
    /\ pc = "begin"
    /\ outcome = "running"
    /\ work_queue = << >>
    /\ code_sections = << >>
    /\ code_section = 0
    /\ s_idx = 1
    /\ found = FALSE
    /\ header_length = Unset
    /\ object_section = 0
    /\ version = "None"
    /\ items = << >>
    /\ init_table = FALSE
    /\ tobject_results = << >>
    /\ scan_runs = 0
    /\ scanned = << >>
    /\ scan_reads = << >>
    /\ version_runs = 0
    /\ attempts = << >>
    /\ forwarded = 0

Spec == Init /\ [][Next]_vars

(***************************************************************************)
(* _find_vftables called on its own, on a context some caller prepared:    *)
(* any header length the locator can give, on sections of any size.        *)
(***************************************************************************)
\* Sections from empty to just past the scan margin, some of a size that
\* is no multiple of 4, each empty or with a self pointer for header
\* length 36 at offset 0 and in its last 24 bytes.
EdgeSections ==
    LET l == LoadOf(1)
    IN UNION { { MkSection("edge", l, size, writes) :
                   writes \in {<< >>, Put(0, l + 36)
                                          \o Put(size - 24, l + size + 12)} } :
               size \in {0, 20, 36, 40, 100, 130, 146} }

ScannerInit ==
    /\ \E s \in ScannerSections \cup EdgeSections, h \in {36, 40, 128} :
          /\ pe_sections = << s >>
          /\ code_sections = << s >>
          /\ header_length = h
    /\ object_section = 1
    /\ code_section = 1
    /\ entry_point = LoadOf(1) + 16
    /\ table_pos = 0
    /\ pc = "call"
    /\ outcome = "running"
    /\ work_queue = << >>
    /\ s_idx = 1
    /\ found = TRUE
    /\ version = "None"
    /\ items = << >>
    /\ init_table = FALSE
    /\ tobject_results = << >>
    /\ scan_runs = 0
    /\ scanned = << >>
    /\ scan_reads = << >>
    /\ version_runs = 0
    /\ attempts = << >>
    /\ forwarded = 0

\* One call of _find_vftables(context).
find_vftables_called ==
    /\ pc = "call"
    /\ call_find_vftables("called")
    /\ UNCHANGED << inputs, code_sections, code_section, s_idx, found,
                    header_length, object_section, version, items, init_table,
                    tobject_results, version_runs, attempts, forwarded >>

ScannerNext == find_vftables_called

ScannerSpec == ScannerInit /\ [][ScannerNext]_vars

(***************************************************************************)
(* Properties.                                                             *)
(***************************************************************************)
\* The sections of the image in which _find_tobject accepts a base object.
Accepting ==
    {k \in 1..Len(pe_sections) : find_tobject(pe_sections[k]).status = "found"}

\* No section of the image contains the entry point.
EntryNowhere ==
    \A k \in 1..Len(pe_sections) : ~contains_va(pe_sections[k], entry_point)

\* Nothing behind step 1 has happened.
NothingLater ==
    /\ scan_runs = 0
    /\ work_queue = << >>
    /\ attempts = << >>
    /\ items = << >>
    /\ version = "None"
    /\ version_runs = 0

\* C1: when the base object is accepted in no code section, or in more
\* than one, the vftable scan never runs, nothing is ever queued or
\* constructed, context.items stays empty and context.version stays unset;
\* once every section is looked at, found is False and analyse() returns.
C1_TObjectFatal ==
    Cardinality(Accepting) # 1 =>
        /\ NothingLater
        /\ pc \in {"begin", "step1", "done"}
        /\ (pc = "step1" /\ s_idx > Len(code_sections)) => ~found

\* C1 witness: analyse() has raised on the second of two accepting sections.
C1_Witness ==
    /\ pc = "done"
    /\ outcome = "Exception"
    /\ Cardinality(Accepting) = 2
    /\ Len(tobject_results) = 2

\* C2 as claimed: with the unit-initialisation table absent no later stage
\* runs (no TObject location, no vftable scan, no construction, no version
\* inference).
C2_InitTableFatal ==
    table_pos = 0 => tobject_results = << >> /\ NothingLater

\* C3 as claimed: the principal section contains the entry point, and with
\* the entry point in no code section no later stage runs.
C3_PrincipalHoldsEntry ==
    /\ code_section # 0 =>
           contains_va(code_sections[code_section], entry_point)
    /\ EntryNowhere => tobject_results = << >> /\ NothingLater

\* What a caller finds after a successful, complete analysis: analyse()
\* returned None and the context holds a version.
LooksComplete == pc = "done" /\ outcome = "returned" /\ version # "None"

\* C4 as claimed: an analysis that ended under a fatal condition (entry
\* point in no code section, base object in no section or in several) does
\* not look like a successful, complete one.
C4_FatalDistinct ==
    (pc = "done" /\ (EntryNowhere \/ Cardinality(Accepting) # 1))
        => ~LooksComplete

\* C5: context.header_length is unset or within [36, 128], and no call of
\* _find_tobject returned a vftable_length outside that range.
C5_HeaderLengthBounded ==
    /\ header_length = Unset \/ (36 <= header_length /\ header_length <= 128)
    /\ \A k \in 1..Len(tobject_results) :
           tobject_results[k].status = "found" =>
               /\ 36 <= tobject_results[k].vftable_length
               /\ tobject_results[k].vftable_length <= 128

\* C5 witness: a base object whose self pointer lies the largest accepted
\* difference ahead was found, next to candidates that were turned down.
C5_Witness ==
    /\ header_length = 128
    /\ tobject_results # << >>
    /\ tobject_results[1].vftable_length = 128

\* The 32-bit field at offset of section s (offset + 4 <= s.size).
Field(s, offset) == U32At(s.data, offset)

\* The 4-byte-aligned offsets below limit.
Aligned(limit) == {i \in 0..(limit - 1) : i % 4 = 0}

\* Offset j of s passes the five checks of the base-object pattern.
Passes(s, j) ==
    /\ Field(s, j + 4) = 0 /\ Field(s, j + 8) = 0
    /\ contains_va(s, Field(s, j))
    /\ 36 <= Field(s, j) - s.load_address - j
    /\ Field(s, j) - s.load_address - j <= 128
    /\ contains_va(s, Field(s, j + 32))
    /\ LET at == Field(s, j + 32) - s.load_address
       IN at + 4 <= s.size /\ Field(s, at) = 1649366023

Passing(s) == {j \in Aligned(s.size - 128) : Passes(s, j)}

\* C6 as claimed: every call of _find_tobject returned the header length
\* Field(j) - load_address - j of the lowest aligned offset j < size - 128
\* that passes the five checks, and found nothing when there is no such
\* offset.
C6_LowestPassing ==
    \A k \in 1..Len(tobject_results) :
        LET s == code_sections[k]
            r == tobject_results[k]
        IN IF Passing(s) = {}
           THEN r.status # "found"
           ELSE LET j == Lowest(Passing(s))
                IN /\ r.status = "found"
                   /\ r.vftable_length = Field(s, j) - s.load_address - j

\* Offset i of s holds a table candidate for header length h: the self
\* pointer, and five following fields each zero or an in-section address.
Candidate(s, h, i) ==
    /\ Field(s, i) = s.load_address + i + h
    /\ \A k \in 1..5 :
           Field(s, i + 4 * k) = 0 \/ contains_va(s, Field(s, i + 4 * k))

RangeOf(seq) == {seq[k] : k \in 1..Len(seq)}

\* The scan enqueued exactly the candidates at the aligned offsets below
\* limit, each once, as Vftable items.
ScannedBelow(limit) ==
    LET s == code_sections[object_section]
        want == {s.load_address + i :
                    i \in {x \in Aligned(limit) : Candidate(s, header_length, x)}}
    IN /\ RangeOf(scanned) = want
       /\ Len(scanned) = Cardinality(want)
       /\ (pc = "step3" /\ attempts = << >>) =>
              work_queue = [k \in 1..Len(scanned) |->
                              [location |-> scanned[k], item_type |-> "Vftable"]]

\* C7 as claimed: the scanner enqueues load_address + i for every aligned
\* offset i of the section that holds a candidate, and nothing else.
C7_EveryOffset ==
    scan_runs > 0 => ScannedBelow(code_sections[object_section].size - 23)

\* C7 as amended: the scanner enqueues load_address + i for every aligned
\* offset i < size - header_length that holds a candidate, and nothing else.
C7_OffsetsInRange ==
    scan_runs > 0 =>
        ScannedBelow(code_sections[object_section].size - header_length)

\* C7 witness: the scan enqueued two tables and passed over a candidate
\* that sits less than header_length before the section's end.
C7_Witness ==
    /\ scan_runs = 1
    /\ Len(scanned) = 2
    /\ LET s == code_sections[object_section]
       IN \E i \in Aligned(s.size - 23) :
              /\ i >= s.size - header_length
              /\ Candidate(s, header_length, i)

\* C8: version inference runs at most once, and exactly once in an
\* analysis that passed the fatal checks and returned; it is entered only
\* with no Vftable item queued; no object of another kind is constructed
\* before it has run; an analysis that aborted ran it zero times.
C8_VersionOnce ==
    /\ version_runs <= 1
    /\ (pc = "done" /\ outcome = "returned" /\ scan_runs = 1) => version_runs = 1
    /\ (pc = "done" /\ (outcome # "returned" \/ scan_runs = 0)) => version_runs = 0
    /\ pc = "step4" =>
           \A k \in 1..Len(work_queue) : work_queue[k].item_type # "Vftable"
    /\ version_runs = 0 =>
           \A k \in 1..Len(attempts) : attempts[k].item_type = "Vftable"
    /\ version_runs = 1 <=> version # "None"

\* C8 witness: a complete analysis that constructed a table before the
\* version was inferred and a type-information record after it.
C8_Witness ==
    /\ pc = "done"
    /\ outcome = "returned"
    /\ version_runs = 1
    /\ \E k \in 1..Len(attempts) : attempts[k].item_type = "TypeInfo"
    /\ \E k \in 1..Len(attempts) :
           attempts[k].item_type = "Vftable" /\ attempts[k].version = "None"

\* C9 as claimed: pass A constructs no object before version inference has
\* run.
C9_PassAAfterVersion ==
    \A k \in 1..Len(attempts) :
        attempts[k].pass = "A" => attempts[k].version # "None"

\* C9 as amended: pass B constructs no object before version inference has
\* run (and pass A constructs all of its objects before it).
C9_PassBAfterVersion ==
    \A k \in 1..Len(attempts) :
        /\ attempts[k].pass = "B" => attempts[k].version = "VersionHelper"
        /\ attempts[k].pass = "A" => attempts[k].version = "None"

\* C9 witness: both passes have constructed an object.
C9_Witness ==
    /\ \E k \in 1..Len(attempts) : attempts[k].pass = "A" /\ attempts[k].ok
    /\ \E k \in 1..Len(attempts) : attempts[k].pass = "B" /\ attempts[k].ok

\* C10 as claimed: context.items holds no two objects of one virtual
\* address and kind.
C10_NoDuplicateItems ==
    \A a, b \in 1..Len(items) :
        (items[a].location = items[b].location
            /\ items[a].item_type = items[b].item_type) => a = b

\* C11 as claimed: analyse() terminates.  What a constructor does is fixed
\* by the image, the item and the context, so a pass that comes back, by
\* constructions that went the same way, to the queue it held at an
\* earlier construction under the same context.version repeats the steps
\* in between for ever; termination says no pass does.
C11_NoQueueRevisited ==
    \A a, b \in 1..Len(attempts) :
        (/\ attempts[a].pass = attempts[b].pass
         /\ attempts[a].version = attempts[b].version
         /\ attempts[a].queue = attempts[b].queue
         /\ attempts[a].ok = attempts[b].ok
         /\ attempts[a].forward = attempts[b].forward) => a = b

\* The calls of _find_tobject made on sections of fewer than 128 bytes.
ShortCalls ==
    {k \in 1..Len(tobject_results) : code_sections[k].size < 128}

\* C12: on a section of fewer than 128 bytes _find_tobject tests no
\* position, reads nothing, raises nothing and returns None.
C12_ShortSectionUntouched ==
    \A k \in ShortCalls :
        /\ tobject_results[k].status = "None"
        /\ tobject_results[k].reads = << >>

\* C12 witness: _find_tobject returned from a 100-byte section that holds
\* a complete base-object pattern at offset 0.
C12_Witness ==
    \E k \in ShortCalls :
        /\ code_sections[k].size = 100
        /\ Field(code_sections[k], 0) = code_sections[k].load_address + 36
        /\ Field(code_sections[k], 64) = 1649366023

\* analyse() ran to its end without a fatal condition.
Completed ==
    pc = "done" /\ outcome = "returned" /\ code_section # 0 /\ found

\* C13: after a run to completion without a fatal condition the context
\* holds a header length, an object section and a version; always, a set
\* version implies a set header length and object section, and stored
\* items imply a set header length.
C13_ContextPopulated ==
    /\ Completed =>
           /\ header_length # Unset
           /\ object_section \in 1..Len(code_sections)
           /\ version # "None"
    /\ version # "None" => header_length # Unset /\ object_section # 0
    /\ items # << >> => header_length # Unset

\* C13 witness: a completed analysis with objects stored.
C13_Witness == Completed /\ items # << >> /\ header_length = 40

\* C14 as claimed: no Vftable object is constructed once context.version
\* is set.
C14_NoVftableAfterVersion ==
    \A k \in 1..Len(attempts) :
        attempts[k].item_type = "Vftable" => attempts[k].version = "None"

\* The item of queue entry or attempt x.
ItemOf(x) == [location |-> x.location, item_type |-> x.item_type]

RECURSIVE Forwards(_)
Forwards(seq) ==
    IF seq = << >> THEN << >> ELSE Head(seq).forward \o Forwards(Tail(seq))

\* Every entry ever put on the queue: the scanner's, then the constructors'.
Enqueued ==
    [k \in 1..Len(scanned) |-> [location |-> scanned[k], item_type |-> "Vftable"]]
        \o Forwards(attempts)

\* How many entries of seq carry item.
Count(seq, item) == Cardinality({k \in 1..Len(seq) : ItemOf(seq[k]) = item})

\* C15: every queue entry is either still queued or was dequeued and had
\* construction attempted, once per entry; when analyse() completes the
\* queue is empty, so each entry ever enqueued was attempted exactly once.
C15_QueueDrained ==
    /\ \A item \in RangeOf(Enqueued) \cup {ItemOf(attempts[k]) : k \in 1..Len(attempts)} :
           Count(Enqueued, item) = Count(attempts, item) + Count(work_queue, item)
    /\ Completed => work_queue = << >> /\ Len(attempts) = Len(Enqueued)

\* C15 witness: a completed analysis that attempted entries of the scanner,
\* of a pass A construction and of a pass B construction.
C15_Witness ==
    /\ Completed
    /\ Len(scanned) = 2
    /\ \E k \in 1..Len(attempts) :
           attempts[k].pass = "A" /\ attempts[k].forward # << >>
    /\ \E k \in 1..Len(attempts) :
           attempts[k].pass = "B" /\ attempts[k].forward # << >>

\* The queue and the number of stored items as attempt k ended.
QueueAfter(k) ==
    IF k < Len(attempts) THEN attempts[k + 1].queue ELSE work_queue

StoredAfter(k) ==
    IF k < Len(attempts) THEN attempts[k + 1].stored ELSE Len(items)

\* seq without its first entry equal to item.
WithoutFirst(seq, item) ==
    LET at == Lowest({k \in 1..Len(seq) : seq[k] = item})
    IN SubSeq(seq, 1, at - 1) \o SubSeq(seq, at + 1, Len(seq))

\* C16: a construction that fails validation leaves the queue as it was
\* but for the item taken off, leaves context.items as it was and raises
\* nothing; the pass goes on, and analyse() ends only by returning with
\* the queue exhausted.
C16_FailureContained ==
    /\ \A k \in 1..Len(attempts) :
           ~attempts[k].ok =>
               /\ QueueAfter(k) = WithoutFirst(attempts[k].queue, ItemOf(attempts[k]))
               /\ StoredAfter(k) = attempts[k].stored
    /\ attempts # << >> =>
           /\ outcome \in {"running", "returned"}
           /\ pc \in {"step3", "step4", "step5", "done"}
           /\ pc = "done" => work_queue = << >>

\* C16 witness: a completed analysis in which a construction failed in
\* pass A, a later item was constructed and stored, and a construction
\* failed in pass B.
C16_Witness ==
    /\ Completed
    /\ \E k \in 1..Len(attempts) :
           /\ attempts[k].pass = "A" /\ ~attempts[k].ok
           /\ \E m \in (k + 1)..Len(attempts) : attempts[m].ok
    /\ \E k \in 1..Len(attempts) : attempts[k].pass = "B" /\ ~attempts[k].ok

\* The attempts that validated, in order.
Validated == SelectSeq(attempts, LAMBDA a : a.ok)

\* C17: context.items holds exactly the objects of the constructions that
\* validated, in the order their items were dequeued, and at every
\* construction it held exactly those validated before it.
C17_ItemsAppendOnly ==
    /\ Len(items) = Len(Validated)
    /\ \A k \in 1..Len(items) :
           /\ items[k].location = Validated[k].location
           /\ items[k].item_type = Validated[k].item_type
    /\ \A k \in 1..Len(attempts) :
           attempts[k].stored =
               Len(SelectSeq(SubSeq(attempts, 1, k - 1), LAMBDA a : a.ok))

\* C17 witness: three attempts of which the second failed, two objects
\* stored.
C17_Witness ==
    /\ Len(attempts) = 3
    /\ attempts[1].ok /\ ~attempts[2].ok /\ attempts[3].ok
    /\ Len(items) = 2

\* Read << offset, length >> lies inside section s.
Inside(s, read) == 0 <= read[1] /\ read[1] + read[2] <= s.size

\* C18 as claimed: every read _find_tobject issues lies wholly inside the
\* section it scans.
C18_TObjectReadsInside ==
    \A k \in 1..Len(tobject_results) :
        \A n \in 1..Len(tobject_results[k].reads) :
            Inside(code_sections[k], tobject_results[k].reads[n])

\* C19: every read _find_vftables issues lies wholly inside the object
\* section, and no read fails, whatever the section's size and the header
\* length in [36, 128].
C19_VftableReadsInside ==
    /\ \A n \in 1..Len(scan_reads) :
           Inside(code_sections[object_section], scan_reads[n])
    /\ scan_runs > 0 => outcome # "struct.error"
    /\ (scan_runs > 0 /\ code_sections[object_section].size < header_length) =>
           scan_reads = << >>

\* C19 witness: a scan that accepted the candidate at the last offset it
\* looks at, whose header reads end 16 bytes before the section's end.
C19_Witness ==
    /\ scan_runs = 1
    /\ \E n \in 1..Len(scan_reads) :
           scan_reads[n][1] + scan_reads[n][2]
               = code_sections[object_section].size - 16
    /\ \E k \in 1..Len(scanned) :
           scanned[k] = code_sections[object_section].load_address
                            + code_sections[object_section].size - 40

\* C20 as claimed: every work item is constructed against
\* context.object_section, and the scanner's items against the section
\* that contains their address.
C20_BuiltAgainstObjectSection ==
    \A k \in 1..Len(attempts) :
        /\ attempts[k].section = object_section
        /\ attempts[k].location \in RangeOf(scanned) =>
               contains_va(code_sections[attempts[k].section],
                           attempts[k].location)

====
